---- MODULE Spec2Model ----
(***************************************************************************)
(* TextTorrent: a tracker (src/tracker.py) holding a registry of file      *)
(* names and their holders, and peers (src/peer.py) that serve their local *)
(* files and download files from each other.                               *)
(*                                                                         *)
(* Byte strings are sequences of atoms.  An atom is a chunk of bytes that  *)
(* the code never looks into: a command token, " " (the byte split and     *)
(* strip look for), "\n", "; " (the separator of LIST_FILES), a piece of a *)
(* file name or of a file's content.                                       *)
(***************************************************************************)
EXTENDS Naturals, Sequences, FiniteSets, TLC

\* ------------------------------------------------------------------ bounds

\* Connections that clients outside the program open (to the tracker or to a
\* peer's file server).
NConn == 2

\* Download connections one orchestrator opens.
MaxDownloads == 2

\* ------------------------------------------------------------- environment

Hosts == {"A", "B"}

\* The host a raw client's connection comes from: two connections of host A
\* and the others of host B.
RawHost(i) == IF i <= 2 THEN "A" ELSE "B"

\* A connection is named by its client end, (host, port): what getpeername()
\* returns on the server side.  Raw clients use the ports 1..NConn.
RawConns == {<<RawHost(i), i>> : i \in 1..NConn}

\* A peer's orchestrator has one connection to the tracker and a new one
\* for each download.
TrackerConn(p) == <<p, 0>>
DownloadConn(p, n) == <<p, NConn + n>>
TrackerConns == {TrackerConn(p) : p \in Hosts}
DownloadConns == {DownloadConn(p, n) : p \in Hosts, n \in 1..MaxDownloads}
OrchConns == TrackerConns \cup DownloadConns
Conns == RawConns \cup OrchConns

Tokens == {"ADD", "REMOVE", "GET_PEER", "LIST_FILES", "GET_FILE", "PING"}

\* File names on the wire.
Names == {<<"a">>, <<"b">>}

\* The frames a raw client sends: every token alone, every token with a
\* name, and some frames with white space around or after the token; "." is
\* the local folder itself.
RawFrames ==
    {<<t>> : t \in Tokens}
        \cup {<<t, " ">> \o n : t \in Tokens, n \in Names}
        \cup {<<"LIST_FILES", "\n">>, <<"ADD", " ">>, <<" ">>,
              <<"GET_FILE", " ", ".">>}

\* --------------------------------------------------------------- bytes

IsSpace(a) == a \in {" ", "\n"}

RECURSIVE lstrip(_)
lstrip(s) == IF s # <<>> /\ IsSpace(Head(s)) THEN lstrip(Tail(s)) ELSE s

RECURSIVE rstrip(_)
rstrip(s) ==
    IF s # <<>> /\ IsSpace(s[Len(s)]) THEN rstrip(SubSeq(s, 1, Len(s) - 1))
    ELSE s

\* bytes.strip()
strip(s) == lstrip(rstrip(s))

\* bytes.split(sep, 1): the list of the parts around the first sep.
split1(s, sep) ==
    IF \E i \in 1..Len(s) : s[i] = sep
    THEN LET i == CHOOSE k \in 1..Len(s) :
                      s[k] = sep /\ \A j \in 1..(k - 1) : s[j] # sep
         IN  <<SubSeq(s, 1, i - 1), SubSeq(s, i + 1, Len(s))>>
    ELSE <<s>>

\* str.split(sep): the list of the parts around every sep.
RECURSIVE split(_, _)
split(s, sep) ==
    LET parts == split1(s, sep)
    IN  IF Len(parts) = 1 THEN parts
        ELSE <<parts[1]>> \o split(parts[2], sep)

\* sep.join(list)
RECURSIVE join(_, _)
join(sep, list) ==
    IF list = <<>> THEN <<>>
    ELSE IF Len(list) = 1 THEN list[1]
    ELSE list[1] \o <<sep>> \o join(sep, Tail(list))

OK(payload) == <<"OK", " ">> \o payload
BadNoFile == <<"BAD", " ", "File does not exist">>
BadMethod == <<"BAD", " ", "Method not supported">>

\* The frame of a command with a file name.
Req(cmd, file) == <<cmd, " ">> \o file

\* No frame: nothing was sent.
NoFrame == <<>>

\* ------------------------------------------------------------------- state

VARIABLES
    tracker,       \* tracker.py: the registry, file name -> set of peers
    trackerKeys,   \* the registry's keys in insertion order (dict order)
    trackerUp,     \* the tracker's main loop is running
    selector,      \* tracker.py: the connections registered for reading
    peerSelector,  \* peer.py: per host, the connections registered
    serverUp,      \* per host, the file server's loop is running
    store,         \* per host, the local folder: file name -> content
    orch,          \* per host, the orchestrator: its place in main (pc) and
                   \* its locals
    conn,          \* per connection: its server, its state, client closed
    inbox,         \* per connection: the frames sent to the server, unread
    outbox,        \* per connection: the replies sent back, unread
    last           \* the last read of a server: where, the bytes, the reply,
                   \* and the registry (t, k) and the folders (s) before it

netVars == <<conn, inbox, outbox>>
trackerVars == <<tracker, trackerKeys, trackerUp, selector>>
peerVars == <<peerSelector, serverUp, store, orch>>

\* conn.getpeername()
getpeername(c) == c

\* A connection: unused; connected and waiting for accept ("backlog");
\* accepted ("open"); closed by its server; dead with its server's process.
\* eof: the client has closed its end.
FreeConn == [st |-> "free", to |-> "none", eof |-> FALSE]
ClosedConn == [st |-> "closed", to |-> "none", eof |-> TRUE]
DeadConn == [st |-> "dead", to |-> "none", eof |-> FALSE]

\* main of peer.py before connect_to_tracker: the file server's thread is
\* started.
InitOrch == [pc |-> "start", todo |-> <<>>, available |-> <<>>, file |-> <<>>,
             peer |-> <<>>, content |-> <<>>, result |-> "none", n |-> 0]

\* recv(1024) on a readable connection: all the bytes that have arrived.
RECURSIVE concat(_)
concat(frames) == IF frames = <<>> THEN <<>> ELSE Head(frames) \o concat(Tail(frames))

\* sendall(reply) to the client of c.  A raw client reads the reply and
\* drops it; an orchestrator's reply waits for its recv.
sendall(c, reply) ==
    IF c \in RawConns THEN outbox ELSE [outbox EXCEPT ![c] = Append(@, reply)]

\* ----------------------------------------------------------------- tracker

\* tracker[file] of a defaultdict(set): a missing key is inserted with an
\* empty set.
getitem(file) ==
    IF file \in DOMAIN tracker
    THEN [t |-> tracker, k |-> trackerKeys]
    ELSE [t |-> tracker @@ (file :> {}), k |-> Append(trackerKeys, file)]

\* serveAdd with the holder set assigned instead of added to.
serveAddAssigns(peer, file) ==
    LET d == getitem(file)
    IN  {[reply |-> OK(<<>>), raised |-> FALSE, k |-> d.k,
          t |-> [d.t EXCEPT ![file] = {peer}]]}

\* case [b"ADD", file]
serveAdd(peer, file) ==
    LET d == getitem(file)
    IN  {[reply |-> OK(<<>>), raised |-> FALSE, k |-> d.k,
          t |-> [d.t EXCEPT ![file] = @ \cup {peer}]]}

\* serveRemove that deletes the key of a holder set it has emptied.
serveRemoveDeletesKey(peer, file) ==
    LET d == getitem(file)
    IN  IF peer \in d.t[file]
        THEN IF d.t[file] = {peer}
             THEN {[reply |-> OK(<<>>), raised |-> FALSE,
                    k |-> SelectSeq(d.k, LAMBDA n : n # file),
                    t |-> [n \in DOMAIN d.t \ {file} |-> d.t[n]]]}
             ELSE {[reply |-> OK(<<>>), raised |-> FALSE, k |-> d.k,
                    t |-> [d.t EXCEPT ![file] = @ \ {peer}]]}
        ELSE {[reply |-> NoFrame, raised |-> TRUE, k |-> d.k, t |-> d.t]}

\* serveRemove with discard in the place of remove and no element removed.
serveRemoveKeeps(peer, file) ==
    LET d == getitem(file)
    IN  {[reply |-> OK(<<>>), raised |-> FALSE, k |-> d.k, t |-> d.t]}

\* case [b"REMOVE", file]: set.remove raises KeyError for a missing element,
\* which "except ValueError" does not catch; the key was inserted by then.
serveRemove(peer, file) ==
    LET d == getitem(file)
    IN  IF peer \in d.t[file]
        THEN {[reply |-> OK(<<>>), raised |-> FALSE, k |-> d.k,
               t |-> [d.t EXCEPT ![file] = @ \ {peer}]]}
        ELSE {[reply |-> NoFrame, raised |-> TRUE, k |-> d.k, t |-> d.t]}

\* serveGetPeer that chooses among the holders of all files.
serveGetPeerOfAnyFile(file) ==
    LET all == UNION {tracker[n] : n \in DOMAIN tracker}
    IN  IF all # {}
        THEN {[reply |-> OK(<<peer[1]>>), raised |-> FALSE, k |-> trackerKeys,
               t |-> tracker] : peer \in all}
        ELSE {[reply |-> BadNoFile, raised |-> FALSE, k |-> trackerKeys,
               t |-> tracker]}

\* serveGetPeer that looks the file up with tracker[file].
serveGetPeerInserts(file) ==
    LET d == getitem(file)
    IN  IF d.t[file] # {}
        THEN {[reply |-> OK(<<peer[1]>>), raised |-> FALSE, k |-> d.k,
               t |-> d.t] : peer \in d.t[file]}
        ELSE {[reply |-> BadNoFile, raised |-> FALSE, k |-> d.k, t |-> d.t]}

\* case [b"GET_PEER", file]: tracker.get(file) inserts nothing; choice() is
\* any of the holders, and the reply is its host, peer[0].
serveGetPeer(file) ==
    IF file \in DOMAIN tracker /\ tracker[file] # {}
    THEN {[reply |-> OK(<<peer[1]>>), raised |-> FALSE, k |-> trackerKeys,
           t |-> tracker] : peer \in tracker[file]}
    ELSE {[reply |-> BadNoFile, raised |-> FALSE, k |-> trackerKeys,
           t |-> tracker]}

\* case [b"LIST_FILES"]
serveListFiles ==
    {[reply |-> OK(join("; ", trackerKeys)), raised |-> FALSE,
      k |-> trackerKeys, t |-> tracker]}

\* case _
serveOther ==
    {[reply |-> BadMethod, raised |-> FALSE, k |-> trackerKeys, t |-> tracker]}

\* serve that takes LIST_FILES with an argument for LIST_FILES.
serveListWithArgument(peer, data) ==
    LET parts == split1(data, " ")
    IN  IF Len(parts) = 2 /\ parts[1] = <<"ADD">> THEN serveAdd(peer, parts[2])
        ELSE IF Len(parts) = 2 /\ parts[1] = <<"REMOVE">>
            THEN serveRemove(peer, parts[2])
        ELSE IF Len(parts) = 2 /\ parts[1] = <<"GET_PEER">>
            THEN serveGetPeer(parts[2])
        ELSE IF parts[1] = <<"LIST_FILES">> THEN serveListFiles
        ELSE serveOther

\* serve(peer, data): the outcomes (reply, registry after, exception raised).
serve(peer, data) ==
    LET parts == split1(data, " ")
    IN  IF Len(parts) = 2 /\ parts[1] = <<"ADD">> THEN serveAdd(peer, parts[2])
        ELSE IF Len(parts) = 2 /\ parts[1] = <<"REMOVE">>
            THEN serveRemove(peer, parts[2])
        ELSE IF Len(parts) = 2 /\ parts[1] = <<"GET_PEER">>
            THEN serveGetPeer(parts[2])
        ELSE IF parts = << <<"LIST_FILES">> >> THEN serveListFiles
        ELSE serveOther

\* read that takes the peer of a closed connection out of every holder set.
readForgetsPeer(c, data) ==
    IF data # NoFrame
    THEN \E r \in serve(getpeername(c), strip(data)) :
            /\ tracker' = r.t
            /\ trackerKeys' = r.k
            /\ trackerUp' = ~r.raised
            /\ outbox' = IF r.raised THEN outbox ELSE sendall(c, r.reply)
            /\ last' = [at |-> "T", conn |-> c, data |-> data,
                        reply |-> r.reply, t |-> tracker, k |-> trackerKeys,
                        s |-> store]
            /\ UNCHANGED <<selector, conn>>
    ELSE /\ selector' = selector \ {c}
         /\ conn' = [conn EXCEPT ![c] = ClosedConn]
         /\ tracker' = [n \in DOMAIN tracker |-> tracker[n] \ {getpeername(c)}]
         /\ last' = [at |-> "T", conn |-> c, data |-> NoFrame,
                     reply |-> NoFrame, t |-> tracker, k |-> trackerKeys,
                     s |-> store]
         /\ UNCHANGED <<trackerKeys, trackerUp, outbox>>

\* read(conn), with data the result of conn.recv(1024): b"" when the client
\* has closed.  An exception of serve is caught nowhere: it leaves read and
\* the loop of main.
read(c, data) ==
    IF data # NoFrame
    THEN \E r \in serve(getpeername(c), strip(data)) :
            /\ tracker' = r.t
            /\ trackerKeys' = r.k
            /\ trackerUp' = ~r.raised
            /\ outbox' = IF r.raised THEN outbox ELSE sendall(c, r.reply)
            /\ last' = [at |-> "T", conn |-> c, data |-> data,
                        reply |-> r.reply, t |-> tracker, k |-> trackerKeys,
                        s |-> store]
            /\ UNCHANGED <<selector, conn>>
    ELSE /\ selector' = selector \ {c}
         /\ conn' = [conn EXCEPT ![c] = ClosedConn]
         /\ last' = [at |-> "T", conn |-> c, data |-> NoFrame,
                     reply |-> NoFrame, t |-> tracker, k |-> trackerKeys,
                     s |-> store]
         /\ UNCHANGED <<tracker, trackerKeys, trackerUp, outbox>>

\* accept(sock): the connection is registered for reading.
accept(c) ==
    /\ trackerUp
    /\ conn' = [conn EXCEPT ![c].st = "open", ![c].to = "T"]
    /\ selector' = selector \cup {c}
    /\ UNCHANGED <<tracker, trackerKeys, trackerUp, inbox, outbox, last, peerVars>>

\* One turn of main's loop for a connection a raw client has written to.
\* A raw client's bytes are chosen when the server reads them: bytes on
\* their way change nothing before that.
TrackerReadRaw(c) ==
    /\ trackerUp /\ c \in selector /\ c \in RawConns
    /\ \E data \in RawFrames : read(c, data)
    /\ UNCHANGED <<inbox, peerVars>>

\* One turn of main's loop for a connection an orchestrator has written to.
TrackerReadFrame(c) ==
    /\ trackerUp /\ c \in selector /\ inbox[c] # <<>>
    /\ read(c, concat(inbox[c]))
    /\ inbox' = [inbox EXCEPT ![c] = <<>>]
    /\ UNCHANGED peerVars

\* One turn of main's loop for a connection its client has closed.
TrackerReadEof(c) ==
    /\ trackerUp /\ c \in selector /\ conn[c].eof /\ inbox[c] = <<>>
    /\ read(c, NoFrame)
    /\ UNCHANGED <<inbox, peerVars>>

\* ------------------------------------------------------- peer file server

\* The text of a file.
Content(name) == <<"text", " ">> \o name

\* FOLDER + "/" + file names the folder itself.
IsFolder(file) == file = <<".">>

\* serve_peer(data) on host h: the outcomes (reply, exception raised).  open
\* raises IsADirectoryError for a folder, which is not caught.
serve_peer(h, data) ==
    LET parts == split1(data, " ")
    IN  IF Len(parts) = 2 /\ parts[1] = <<"GET_FILE">>
        THEN IF parts[2] \in DOMAIN store[h]
                THEN [reply |-> OK(store[h][parts[2]]), raised |-> FALSE]
             ELSE IF IsFolder(parts[2])
                THEN [reply |-> NoFrame, raised |-> TRUE]
             ELSE [reply |-> BadNoFile, raised |-> FALSE]
        ELSE [reply |-> BadMethod, raised |-> FALSE]

\* read_peer that closes the connection and leaves it registered.
read_peerKeepsRegistered(h, c, data) ==
    IF data # NoFrame
    THEN LET r == serve_peer(h, strip(data))
         IN  /\ serverUp' = [serverUp EXCEPT ![h] = ~r.raised]
             /\ outbox' = IF r.raised THEN outbox ELSE sendall(c, r.reply)
             /\ last' = [at |-> h, conn |-> c, data |-> data,
                         reply |-> r.reply, t |-> tracker, k |-> trackerKeys,
                        s |-> store]
             /\ UNCHANGED <<peerSelector, conn>>
    ELSE /\ conn' = [conn EXCEPT ![c] = ClosedConn]
         /\ last' = [at |-> h, conn |-> c, data |-> NoFrame,
                     reply |-> NoFrame, t |-> tracker, k |-> trackerKeys,
                     s |-> store]
         /\ UNCHANGED <<peerSelector, serverUp, outbox>>

\* read_peer(conn) on host h, with data the result of conn.recv(1024).
read_peer(h, c, data) ==
    IF data # NoFrame
    THEN LET r == serve_peer(h, strip(data))
         IN  /\ serverUp' = [serverUp EXCEPT ![h] = ~r.raised]
             /\ outbox' = IF r.raised THEN outbox ELSE sendall(c, r.reply)
             /\ last' = [at |-> h, conn |-> c, data |-> data,
                         reply |-> r.reply, t |-> tracker, k |-> trackerKeys,
                        s |-> store]
             /\ UNCHANGED <<peerSelector, conn>>
    ELSE /\ peerSelector' = [peerSelector EXCEPT ![h] = @ \ {c}]
         /\ conn' = [conn EXCEPT ![c] = ClosedConn]
         /\ last' = [at |-> h, conn |-> c, data |-> NoFrame,
                     reply |-> NoFrame, t |-> tracker, k |-> trackerKeys,
                     s |-> store]
         /\ UNCHANGED <<serverUp, outbox>>

\* accept_peer(sock) on host h.
accept_peer(h, c) ==
    /\ serverUp[h]
    /\ conn' = [conn EXCEPT ![c].st = "open", ![c].to = h]
    /\ peerSelector' = [peerSelector EXCEPT ![h] = @ \cup {c}]
    /\ UNCHANGED <<trackerVars, serverUp, store, orch, inbox, outbox, last>>

\* One turn of serve_peer_thread's loop, for a raw client's frame.
PeerReadRaw(h, c) ==
    /\ serverUp[h] /\ c \in peerSelector[h] /\ c \in RawConns
    /\ \E data \in RawFrames : read_peer(h, c, data)
    /\ UNCHANGED <<trackerVars, store, orch, inbox>>

\* PeerReadFrame of a file server that shares the loop of its orchestrator:
\* it reads while the orchestrator is not inside remote_call.
PeerReadFrameWhenIdle(h, c) ==
    /\ orch[h].pc \notin {"announce_wait", "list_wait", "getpeer_wait",
                          "transfer_wait", "add_wait", "retract_wait"}
    /\ serverUp[h] /\ c \in peerSelector[h] /\ inbox[c] # <<>>
    /\ read_peer(h, c, concat(inbox[c]))
    /\ inbox' = [inbox EXCEPT ![c] = <<>>]
    /\ UNCHANGED <<trackerVars, store, orch>>

\* One turn of serve_peer_thread's loop, for an orchestrator's frame.
PeerReadFrame(h, c) ==
    /\ serverUp[h] /\ c \in peerSelector[h] /\ inbox[c] # <<>>
    /\ read_peer(h, c, concat(inbox[c]))
    /\ inbox' = [inbox EXCEPT ![c] = <<>>]
    /\ UNCHANGED <<trackerVars, store, orch>>

\* One turn of serve_peer_thread's loop, for a closed connection.
PeerReadEof(h, c) ==
    /\ serverUp[h] /\ c \in peerSelector[h] /\ conn[c].eof /\ inbox[c] = <<>>
    /\ read_peer(h, c, NoFrame)
    /\ UNCHANGED <<trackerVars, store, orch, inbox>>

\* ------------------------------------------------------------ raw clients

\* A raw client connects to the tracker and accept runs.
TrackerAcceptRaw(c) ==
    /\ c \in RawConns /\ conn[c].st = "free"
    /\ accept(c)

\* A raw client connects to the file server of host h and accept_peer runs.
PeerAcceptRaw(h, c) ==
    /\ c \in RawConns /\ conn[c].st = "free"
    /\ accept_peer(h, c)

\* A raw client has closed its connection and the tracker's read runs.
TrackerReadEofRaw(c) ==
    /\ trackerUp /\ c \in selector /\ c \in RawConns
    /\ read(c, NoFrame)
    /\ UNCHANGED <<inbox, peerVars>>

\* A raw client has closed its connection and the file server's read runs.
PeerReadEofRaw(h, c) ==
    /\ serverUp[h] /\ c \in peerSelector[h] /\ c \in RawConns
    /\ read_peer(h, c, NoFrame)
    /\ UNCHANGED <<trackerVars, store, orch, inbox>>

\* ------------------------------------------------------------ orchestrator

\* listdir(FOLDER): the files of the folder, in some order.
listdir(p) ==
    {q \in [1..Cardinality(DOMAIN store[p]) -> DOMAIN store[p]] :
        \A i, j \in DOMAIN q : i # j => q[i] # q[j]}

\* The process of host p runs: its ports accept connections.
Running(p) == orch[p].pc \notin {"exited", "crashed"}

\* The process of host p ends (sys.exit, or an exception nothing catches,
\* which ends main and with it the daemon thread): its sockets are closed,
\* the connections to its file server die.
ProcessEnds(p, how) ==
    /\ orch' = [orch EXCEPT ![p].pc = how]
    /\ serverUp' = [serverUp EXCEPT ![p] = FALSE]
    /\ peerSelector' = [peerSelector EXCEPT ![p] = {}]
    /\ conn' = [c \in Conns |->
                  IF conn[c].to = p /\ conn[c].st \in {"backlog", "open"}
                      THEN DeadConn
                  ELSE IF c \in OrchConns /\ c[1] = p
                          /\ conn[c].st \in {"backlog", "open"}
                      THEN [conn[c] EXCEPT !.eof = TRUE]
                  ELSE conn[c]]

\* remote_call, first half: sock.sendall(message).
Send(c, message) == inbox' = [inbox EXCEPT ![c] = Append(@, message)]

\* remote_call, second half: sock.recv(1024) returns once bytes have
\* arrived, or b"" when the other end is gone.
CanRecv(c) == outbox[c] # <<>> \/ conn[c].st = "dead"
Answer(c) == concat(outbox[c])
Recv(c) == outbox' = [outbox EXCEPT ![c] = <<>>]

\* main: connect_to_tracker opens the connection and lists the folder.
Connect(p) ==
    /\ orch[p].pc = "start"
    /\ trackerUp
    /\ conn' = [conn EXCEPT ![TrackerConn(p)] =
                    [st |-> "backlog", to |-> "T", eof |-> FALSE]]
    /\ \E files \in listdir(p) :
          orch' = [orch EXCEPT ![p].todo = files,
                               ![p].pc = IF files = <<>> THEN "prompt"
                                         ELSE "announce"]
    /\ UNCHANGED <<trackerVars, peerSelector, serverUp, store, inbox, outbox, last>>

\* AnnounceSend that sends the next ADD without waiting for the reply.
AnnounceSendPipelines(p) ==
    /\ orch[p].pc = "announce"
    /\ Send(TrackerConn(p), Req("ADD", Head(orch[p].todo)))
    /\ orch' = [orch EXCEPT ![p].todo = Tail(@),
                             ![p].pc = IF Tail(orch[p].todo) = <<>> THEN "prompt"
                                       ELSE "announce"]
    /\ UNCHANGED <<trackerVars, peerSelector, serverUp, store, conn, outbox, last>>

\* connect_to_tracker: add_from_peer sends ADD for the next file.
AnnounceSend(p) ==
    /\ orch[p].pc = "announce"
    /\ Send(TrackerConn(p), Req("ADD", Head(orch[p].todo)))
    /\ orch' = [orch EXCEPT ![p].pc = "announce_wait"]
    /\ UNCHANGED <<trackerVars, peerSelector, serverUp, store, conn, outbox, last>>

\* AnnounceRecv that leaves connect_to_tracker after the first reply.
AnnounceRecvOnce(p) ==
    /\ orch[p].pc = "announce_wait"
    /\ CanRecv(TrackerConn(p))
    /\ Recv(TrackerConn(p))
    /\ orch' = [orch EXCEPT ![p].todo = <<>>, ![p].pc = "prompt"]
    /\ UNCHANGED <<trackerVars, peerSelector, serverUp, store, conn, inbox, last>>

\* connect_to_tracker: the reply of an ADD arrives; it is not looked at.
AnnounceRecv(p) ==
    /\ orch[p].pc = "announce_wait"
    /\ CanRecv(TrackerConn(p))
    /\ Recv(TrackerConn(p))
    /\ orch' = [orch EXCEPT ![p].todo = Tail(@),
                             ![p].pc = IF Tail(orch[p].todo) = <<>> THEN "prompt"
                                       ELSE "announce"]
    /\ UNCHANGED <<trackerVars, peerSelector, serverUp, store, conn, inbox, last>>

\* main: the user enters "ls"; list_files sends LIST_FILES.
Ls(p) ==
    /\ orch[p].pc = "prompt"
    /\ orch[p].n < MaxDownloads
    /\ Send(TrackerConn(p), <<"LIST_FILES">>)
    /\ orch' = [orch EXCEPT ![p].pc = "list_wait", ![p].result = "none"]
    /\ UNCHANGED <<trackerVars, peerSelector, serverUp, store, conn, outbox, last>>

\* list_files: the remote files that are not in the folder.  A reply
\* without a space does not unpack and raises ValueError.
list_files(p, answer) ==
    LET parts == split1(answer, " ")
    IN  IF Len(parts) # 2 THEN [raised |-> TRUE, files |-> <<>>]
        ELSE [raised |-> FALSE,
              files |-> SelectSeq(split(parts[2], "; "),
                                  LAMBDA f : f \notin DOMAIN store[p])]

\* main: list_files returns; with no new file main prompts again.
ListRecv(p) ==
    /\ orch[p].pc = "list_wait"
    /\ CanRecv(TrackerConn(p))
    /\ Recv(TrackerConn(p))
    /\ LET r == list_files(p, Answer(TrackerConn(p)))
       IN  IF r.raised
           THEN ProcessEnds(p, "crashed") /\ UNCHANGED store
           ELSE /\ orch' = [orch EXCEPT ![p].available = r.files,
                                        ![p].pc = IF r.files = <<>> THEN "prompt"
                                                  ELSE "choose"]
                /\ UNCHANGED <<peerSelector, serverUp, store, conn>>
    /\ UNCHANGED <<trackerVars, inbox, last>>

\* main: the user enters an index; get_peer sends GET_PEER for that file.
Choose(p) ==
    /\ orch[p].pc = "choose"
    /\ \E i \in 1..Len(orch[p].available) :
          /\ Send(TrackerConn(p), Req("GET_PEER", orch[p].available[i]))
          /\ orch' = [orch EXCEPT ![p].file = orch[p].available[i],
                                   ![p].pc = "getpeer_wait"]
    /\ UNCHANGED <<trackerVars, peerSelector, serverUp, store, conn, outbox, last>>

\* get_peer: the payload of an OK reply; None (here <<>>) for any other
\* reply, "BAD" as well, since case b"BAD" matches no str.
get_peer(answer) ==
    LET result == split1(answer, " ")
    IN  IF result[1] = <<"OK">> /\ Len(result) = 2 THEN result[2] ELSE <<>>

\* main: get_peer returns; "if peer" is false for None and for "".
GetPeerRecv(p) ==
    /\ orch[p].pc = "getpeer_wait"
    /\ CanRecv(TrackerConn(p))
    /\ Recv(TrackerConn(p))
    /\ LET peer == get_peer(Answer(TrackerConn(p)))
       IN  orch' = [orch EXCEPT ![p].peer = peer,
                                ![p].pc = IF peer # <<>> THEN "download"
                                          ELSE "prompt",
                                ![p].result = IF peer # <<>> THEN "none"
                                              ELSE "failed"]
    /\ UNCHANGED <<trackerVars, peerSelector, serverUp, store, conn, inbox, last>>

\* download_file: create_connection((peer, 12010)) and the GET_FILE
\* request.  With no process at that address create_connection raises
\* ConnectionRefusedError, which nothing catches.
Download(p) ==
    /\ orch[p].pc = "download"
    /\ LET h == orch[p].peer[1]
           d == DownloadConn(p, orch[p].n + 1)
       IN  IF Len(orch[p].peer) = 1 /\ h \in Hosts /\ Running(h)
           THEN /\ conn' = [conn EXCEPT ![d] =
                               [st |-> "backlog", to |-> h, eof |-> FALSE]]
                /\ Send(d, Req("GET_FILE", orch[p].file))
                /\ orch' = [orch EXCEPT ![p].pc = "transfer_wait",
                                        ![p].n = @ + 1]
                /\ UNCHANGED <<peerSelector, serverUp>>
           ELSE ProcessEnds(p, "crashed") /\ UNCHANGED inbox
    /\ UNCHANGED <<trackerVars, store, outbox, last>>

\* TransferRecv that returns True before the content is written.
TransferRecvSkipsSave(p) ==
    LET d == DownloadConn(p, orch[p].n)
        parts == split1(Answer(d), " ")
    IN  /\ orch[p].pc = "transfer_wait"
        /\ CanRecv(d)
        /\ Recv(d)
        /\ IF Len(parts) # 2
           THEN ProcessEnds(p, "crashed")
           ELSE /\ conn' = [conn EXCEPT ![d].eof = TRUE]
                /\ orch' = IF parts[1] = <<"BAD">>
                           THEN [orch EXCEPT ![p].pc = "prompt",
                                             ![p].result = "failed"]
                           ELSE [orch EXCEPT ![p].pc = "add",
                                             ![p].content = parts[2]]
                /\ UNCHANGED <<peerSelector, serverUp>>
        /\ UNCHANGED <<trackerVars, store, inbox, last>>

\* TransferRecv that takes a BAD reply for content.
TransferRecvSavesBad(p) ==
    LET d == DownloadConn(p, orch[p].n)
        parts == split1(Answer(d), " ")
    IN  /\ orch[p].pc = "transfer_wait"
        /\ CanRecv(d)
        /\ Recv(d)
        /\ IF Len(parts) # 2
           THEN ProcessEnds(p, "crashed")
           ELSE /\ conn' = [conn EXCEPT ![d].eof = TRUE]
                /\ orch' = [orch EXCEPT ![p].pc = "save",
                                        ![p].content = parts[2]]
                /\ UNCHANGED <<peerSelector, serverUp>>
        /\ UNCHANGED <<trackerVars, store, inbox, last>>

\* download_file: the reply of GET_FILE; the with statement closes the
\* connection.  A reply without a space (b"" of a dead connection) does not
\* unpack and raises ValueError; BAD returns False.
TransferRecv(p) ==
    LET d == DownloadConn(p, orch[p].n)
        parts == split1(Answer(d), " ")
    IN  /\ orch[p].pc = "transfer_wait"
        /\ CanRecv(d)
        /\ Recv(d)
        /\ IF Len(parts) # 2
           THEN ProcessEnds(p, "crashed")
           ELSE /\ conn' = [conn EXCEPT ![d].eof = TRUE]
                /\ orch' = IF parts[1] = <<"BAD">>
                           THEN [orch EXCEPT ![p].pc = "prompt",
                                             ![p].result = "failed"]
                           ELSE [orch EXCEPT ![p].pc = "save",
                                             ![p].content = parts[2]]
                /\ UNCHANGED <<peerSelector, serverUp>>
        /\ UNCHANGED <<trackerVars, store, inbox, last>>

\* Save that returns True with nothing written.
SaveWritesNothing(p) ==
    /\ orch[p].pc = "save"
    /\ orch' = [orch EXCEPT ![p].pc = "add"]
    /\ UNCHANGED <<trackerVars, peerSelector, serverUp, store, netVars, last>>

\* download_file: the content is written to FOLDER/file; returns True.
Save(p) ==
    /\ orch[p].pc = "save"
    /\ store' = [store EXCEPT ![p] =
                    [f \in DOMAIN @ \cup {orch[p].file} |->
                        IF f = orch[p].file THEN orch[p].content ELSE @[f]]]
    /\ orch' = [orch EXCEPT ![p].pc = "add"]
    /\ UNCHANGED <<trackerVars, peerSelector, serverUp, netVars, last>>

\* main: add_from_peer sends ADD for the downloaded file.
AddSend(p) ==
    /\ orch[p].pc = "add"
    /\ Send(TrackerConn(p), Req("ADD", orch[p].file))
    /\ orch' = [orch EXCEPT ![p].pc = "add_wait"]
    /\ UNCHANGED <<trackerVars, peerSelector, serverUp, store, conn, outbox, last>>

\* main: the reply of that ADD; "The file has been downloaded."
AddRecv(p) ==
    /\ orch[p].pc = "add_wait"
    /\ CanRecv(TrackerConn(p))
    /\ Recv(TrackerConn(p))
    /\ orch' = [orch EXCEPT ![p].pc = "prompt", ![p].result = "ok"]
    /\ UNCHANGED <<trackerVars, peerSelector, serverUp, store, conn, inbox, last>>

\* main: the user enters "close"; disconnect_from_tracker lists the folder.
Close(p) ==
    /\ orch[p].pc = "prompt"
    /\ \E files \in listdir(p) :
          orch' = [orch EXCEPT ![p].todo = files, ![p].pc = "retract"]
    /\ UNCHANGED <<trackerVars, peerSelector, serverUp, store, netVars, last>>

\* disconnect_from_tracker: REMOVE for the next file.
RetractSend(p) ==
    /\ orch[p].pc = "retract"
    /\ orch[p].todo # <<>>
    /\ Send(TrackerConn(p), <<"REMOVE", " ">> \o Head(orch[p].todo))
    /\ orch' = [orch EXCEPT ![p].pc = "retract_wait"]
    /\ UNCHANGED <<trackerVars, peerSelector, serverUp, store, conn, outbox, last>>

\* RetractRecv that leaves the loop of disconnect_from_tracker after the
\* first reply.
RetractRecvOnce(p) ==
    /\ orch[p].pc = "retract_wait"
    /\ CanRecv(TrackerConn(p))
    /\ Recv(TrackerConn(p))
    /\ orch' = [orch EXCEPT ![p].todo = <<>>, ![p].pc = "retract"]
    /\ UNCHANGED <<trackerVars, peerSelector, serverUp, store, conn, inbox, last>>

\* disconnect_from_tracker: the reply of a REMOVE arrives.
RetractRecv(p) ==
    /\ orch[p].pc = "retract_wait"
    /\ CanRecv(TrackerConn(p))
    /\ Recv(TrackerConn(p))
    /\ orch' = [orch EXCEPT ![p].todo = Tail(@), ![p].pc = "retract"]
    /\ UNCHANGED <<trackerVars, peerSelector, serverUp, store, conn, inbox, last>>

\* disconnect_from_tracker closes the connection; main calls sys.exit().
Exit(p) ==
    /\ orch[p].pc = "retract"
    /\ orch[p].todo = <<>>
    /\ ProcessEnds(p, "exited")
    /\ UNCHANGED <<trackerVars, store, inbox, outbox, last>>

\* The tracker accepts an orchestrator's connection.
TrackerAccept(c) ==
    /\ conn[c].st = "backlog" /\ conn[c].to = "T"
    /\ accept(c)

\* A file server accepts an orchestrator's connection.
PeerAccept(h, c) ==
    /\ conn[c].st = "backlog" /\ conn[c].to = h
    /\ accept_peer(h, c)

\* ------------------------------------------------------------------- Spec

vars == <<tracker, trackerKeys, trackerUp, selector, peerSelector, serverUp,
          store, orch, conn, inbox, outbox, last>>

NoLast == [at |-> "none", conn |-> <<"A", 0>>, data |-> NoFrame,
           reply |-> NoFrame, t |-> <<>>, k |-> <<>>, s |-> <<>>]

Init ==
    /\ tracker = <<>>
    /\ trackerKeys = <<>>
    /\ trackerUp = TRUE
    /\ selector = {}
    /\ peerSelector = [h \in Hosts |-> {}]
    /\ serverUp = [h \in Hosts |-> TRUE]
    /\ store = [h \in Hosts |-> IF h = "A" THEN (<<"a">> :> Content(<<"a">>))
                                 ELSE (<<"b">> :> Content(<<"b">>))]
    /\ orch = [h \in Hosts |-> InitOrch]
    /\ conn = [c \in Conns |-> FreeConn]
    /\ inbox = [c \in Conns |-> <<>>]
    /\ outbox = [c \in Conns |-> <<>>]
    /\ last = NoLast

\* The tracker and the file servers with clients that send any frame.
Next ==
    \/ \E c \in RawConns : TrackerAcceptRaw(c)
    \/ \E c \in RawConns : TrackerReadRaw(c)
    \/ \E c \in RawConns : TrackerReadEofRaw(c)
    \/ \E c \in RawConns : PeerAcceptRaw("A", c)
    \/ \E c \in RawConns : PeerReadRaw("A", c)
    \/ \E c \in RawConns : PeerReadEofRaw("A", c)

Spec == Init /\ [][Next]_vars

\* The tracker and the peers: orchestrators, and the file servers that
\* serve them.
NextPeers ==
    \/ \E p \in Hosts : Connect(p)
    \/ \E p \in Hosts : AnnounceSend(p)
    \/ \E p \in Hosts : AnnounceRecv(p)
    \/ \E p \in Hosts : Ls(p)
    \/ \E p \in Hosts : ListRecv(p)
    \/ \E p \in Hosts : Choose(p)
    \/ \E p \in Hosts : GetPeerRecv(p)
    \/ \E p \in Hosts : Download(p)
    \/ \E p \in Hosts : TransferRecv(p)
    \/ \E p \in Hosts : Save(p)
    \/ \E p \in Hosts : AddSend(p)
    \/ \E p \in Hosts : AddRecv(p)
    \/ \E p \in Hosts : Close(p)
    \/ \E p \in Hosts : RetractSend(p)
    \/ \E p \in Hosts : RetractRecv(p)
    \/ \E p \in Hosts : Exit(p)
    \/ \E c \in TrackerConns : TrackerAccept(c)
    \/ \E c \in TrackerConns : TrackerReadFrame(c)
    \/ \E c \in TrackerConns : TrackerReadEof(c)
    \/ \E h \in Hosts, c \in DownloadConns : PeerAccept(h, c)
    \/ \E h \in Hosts, c \in DownloadConns : PeerReadFrame(h, c)
    \/ \E h \in Hosts, c \in DownloadConns : PeerReadEof(h, c)

SpecPeers == Init /\ [][NextPeers]_vars

\* The loops keep running: each file server's loop handles a connection
\* that is ready; download_file runs on when its recv has bytes, and writes
\* the file.  Nothing is assumed of the tracker's loop, nor of the user.
FileServerLoop(h) ==
    \E c \in DownloadConns :
        PeerAccept(h, c) \/ PeerReadFrame(h, c) \/ PeerReadEof(h, c)
Proceeds(p) == TransferRecv(p) \/ Save(p)

SpecPeersFair ==
    /\ SpecPeers
    /\ \A h \in Hosts : WF_vars(FileServerLoop(h))
    /\ \A p \in Hosts : WF_vars(Proceeds(p))

\* The connection of an earlier process of host A: it announced b and was
\* killed; the tracker has read its end of file, and the registry keeps the
\* entry.
Stale == <<"A", 1>>

\* The peers start against a tracker that has run for a while, with or
\* without the entry of the earlier process, and the folder of A holds
\* nothing, a, or a and b.
InitStale ==
    /\ \E stale \in BOOLEAN :
          /\ tracker = IF stale THEN (<<"b">> :> {getpeername(Stale)}) ELSE <<>>
          /\ trackerKeys = IF stale THEN << <<"b">> >> ELSE <<>>
          /\ conn = [c \in Conns |-> IF stale /\ c = Stale THEN ClosedConn
                                     ELSE FreeConn]
          /\ \E folder \in {{}, {<<"a">>}, {<<"a">>, <<"b">>}} :
                /\ store = [h \in Hosts |->
                              IF h = "A" THEN [f \in folder |-> Content(f)]
                              ELSE (<<"b">> :> Content(<<"b">>))]
                /\ last = IF stale
                          THEN [at |-> "T", conn |-> Stale, data |-> NoFrame,
                                reply |-> NoFrame, t |-> tracker,
                                k |-> trackerKeys, s |-> store]
                          ELSE NoLast
    /\ trackerUp = TRUE
    /\ selector = {}
    /\ peerSelector = [h \in Hosts |-> {}]
    /\ serverUp = [h \in Hosts |-> TRUE]
    /\ orch = [h \in Hosts |-> InitOrch]
    /\ inbox = [c \in Conns |-> <<>>]
    /\ outbox = [c \in Conns |-> <<>>]

SpecStale == InitStale /\ [][NextPeers]_vars

\* ------------------------------------------------------------------ claims

\* The last read was the tracker's (a file server's), of a frame.
TrackerHandled == last.at = "T" /\ last.data # NoFrame
PeerHandled == last.at \in Hosts /\ last.data # NoFrame

\* The peer the tracker served at its last read.
LastPeer == getpeername(last.conn)

\* The holders of a file in a registry; none for an unknown file.
Holders(t, file) == IF file \in DOMAIN t THEN t[file] ELSE {}

\* A LIST_FILES reply that names the file.
Lists(reply, file) ==
    /\ Len(reply) >= 2 /\ reply[1] = "OK" /\ reply[2] = " "
    /\ \E i \in 1..Len(split(SubSeq(reply, 3, Len(reply)), "; ")) :
          split(SubSeq(reply, 3, Len(reply)), "; ")[i] = file

\* What the tracker would reply to a frame now.
Replies(peer, data) == {r.reply : r \in serve(peer, data)}

\* C1: every request frame gets one reply that begins with OK or BAD, and
\* no request ends the tracker or a file server.
C1_RequestsNeverTerminate ==
    /\ trackerUp
    /\ \A h \in Hosts : serverUp[h]
    /\ (TrackerHandled \/ PeerHandled) =>
          Len(last.reply) >= 1 /\ last.reply[1] \in {"OK", "BAD"}

\* C2: REMOVE f from a peer that is no holder of f leaves the registry as
\* it was (holder sets and known names) and is answered with a reply.
C2_RemoveByNonHolderIsNoOp ==
    \A f \in Names :
        (TrackerHandled /\ last.data = Req("REMOVE", f)
                /\ LastPeer \notin Holders(last.t, f)) =>
            /\ tracker = last.t
            /\ trackerKeys = last.k
            /\ last.reply # NoFrame

\* C3: GET_PEER f is answered OK with the address of one of f's holders when
\* f has holders, and BAD "File does not exist" when it has none.
C3_GetPeerReturnsAHolder ==
    \A f \in Names :
        (TrackerHandled /\ last.data = Req("GET_PEER", f)) =>
            IF Holders(last.t, f) # {}
            THEN \E peer \in Holders(last.t, f) : last.reply = OK(<<peer[1]>>)
            ELSE last.reply = BadNoFile

C3_Witness ==
    /\ TrackerHandled /\ last.data = Req("GET_PEER", <<"a">>)
    /\ Cardinality(Holders(last.t, <<"a">>)) = 2
    /\ Holders(last.t, <<"b">>) = {}
    /\ last.reply = OK(<<"A">>)

\* C4: a file name that was added stays known: no step removes a known name,
\* ADD f makes f known, and every LIST_FILES reply names every known file,
\* also one whose holder set is empty.
C4_KnownNamesNeverShrink ==
    [][/\ \A f \in DOMAIN tracker : f \in DOMAIN tracker'
       /\ \A f \in Names :
            (last' # last /\ last'.at = "T" /\ last'.data = Req("ADD", f)) =>
                f \in DOMAIN tracker'
       /\ (last' # last /\ last'.at = "T" /\ last'.data = <<"LIST_FILES">>) =>
            \A f \in DOMAIN tracker' : Lists(last'.reply, f)]_vars

C4_Witness ==
    /\ TrackerHandled /\ last.data = <<"LIST_FILES">>
    /\ <<"a">> \in DOMAIN tracker /\ tracker[<<"a">>] = {}
    /\ <<"b">> \in DOMAIN tracker /\ tracker[<<"b">>] # {}
    /\ Lists(last.reply, <<"a">>)

\* C5: when the only holder of f removes f, the REMOVE is answered OK, a
\* GET_PEER f is then answered BAD "File does not exist", and LIST_FILES
\* still names f.
C5_RemoveByOnlyHolder ==
    \A f \in Names :
        (TrackerHandled /\ last.data = Req("REMOVE", f)
                /\ Holders(last.t, f) = {LastPeer}) =>
            /\ last.reply = OK(<<>>)
            /\ trackerUp
            /\ Replies(LastPeer, Req("GET_PEER", f)) = {BadNoFile}
            /\ \A reply \in Replies(LastPeer, <<"LIST_FILES">>) : Lists(reply, f)

C5_Witness ==
    /\ TrackerHandled /\ last.data = Req("REMOVE", <<"a">>)
    /\ Holders(last.t, <<"a">>) = {LastPeer}
    /\ last.reply = OK(<<>>)
    /\ tracker[<<"a">>] = {}

C7_HolderIsTheHostAddress ==
    \A f \in Names :
        /\ \A p, q \in Holders(tracker, f) : p[1] = q[1] => p = q
        /\ (TrackerHandled /\ last.data = Req("REMOVE", f)
                /\ \E p \in Holders(last.t, f) : p[1] = LastPeer[1]) =>
              /\ last.reply = OK(<<>>)
              /\ \A p \in Holders(tracker, f) : p[1] # LastPeer[1]

\* The frames the protocol recognizes, after the white space around them
\* is stripped: a token, and for a command with an argument one space and
\* a non-empty rest.
HasArgument(s) == Len(s) >= 3 /\ s[2] = " "
Recognized(at, s) ==
    IF at = "T"
    THEN \/ s[1] \in {"ADD", "REMOVE", "GET_PEER"} /\ HasArgument(s)
         \/ s = <<"LIST_FILES">>
    ELSE s[1] = "GET_FILE" /\ HasArgument(s)

\* C8: a frame that is no recognized command with its argument is answered
\* BAD "Method not supported"; the registry and the folders stay as they
\* were.
C8_UnrecognizedFrameIsBadMethod ==
    ((TrackerHandled \/ PeerHandled)
            /\ (strip(last.data) = <<>> \/ ~Recognized(last.at, strip(last.data)))) =>
        /\ last.reply = BadMethod
        /\ tracker = last.t /\ trackerKeys = last.k
        /\ store = last.s
        /\ IF last.at = "T" THEN trackerUp ELSE serverUp[last.at]

C8_Witness ==
    /\ TrackerHandled /\ last.data = Req("LIST_FILES", <<"a">>)
    /\ last.reply = BadMethod
    /\ <<"a">> \in DOMAIN tracker

C8_WitnessPeer ==
    /\ PeerHandled /\ last.data = Req("ADD", <<"a">>)
    /\ last.reply = BadMethod

\* C9: a read of zero bytes unregisters and closes the connection and
\* leaves the registry as it was: what the connection added is still held
\* and GET_PEER can still return it.
C9_DisconnectKeepsRegistry ==
    (last.at = "T" /\ last.data = NoFrame) =>
        /\ last.conn \notin selector
        /\ conn[last.conn].st = "closed"
        /\ tracker = last.t /\ trackerKeys = last.k
        /\ \A f \in DOMAIN last.t :
              LastPeer \in last.t[f] =>
                  OK(<<LastPeer[1]>>) \in Replies(LastPeer, Req("GET_PEER", f))

C9_Witness ==
    /\ last.at = "T" /\ last.data = NoFrame
    /\ conn[last.conn].st = "closed"
    /\ LastPeer \in Holders(tracker, <<"a">>)

\* The elements of a sequence.
Range(q) == {q[i] : i \in DOMAIN q}

\* The orchestrator of p has reported a download as done and prompts.
Downloaded(p) == orch[p].pc = "prompt" /\ orch[p].result = "ok"

\* The orchestrator of h has sent REMOVE for the file.
SentRemove(h, file) ==
    \/ orch[h].pc \in {"retract", "exited"} /\ file \notin Range(orch[h].todo)
    \/ orch[h].pc = "retract_wait" /\ file \notin Range(Tail(orch[h].todo))

\* An ADD of a file that is not in the folder of p is on its way to the
\* tracker.
AddBeforeSave(p) ==
    \E i \in DOMAIN inbox[TrackerConn(p)], f \in Names :
        /\ inbox[TrackerConn(p)][i] = Req("ADD", f)
        /\ f \notin DOMAIN store[p]

\* C10 as stated: after p has downloaded a file from holder h, the file is
\* in p's folder, the ADD was sent after the file was saved, the holder set
\* holds both p and h, and GET_PEER may return either.
C10_HolderSetHasBoth ==
    \A p \in Hosts :
        /\ ~AddBeforeSave(p)
        /\ Downloaded(p) =>
              LET x == orch[p].file
                  h == orch[p].peer[1]
              IN  /\ x \in DOMAIN store[p]
                  /\ {TrackerConn(p), TrackerConn(h)} \subseteq Holders(tracker, x)
                  /\ {OK(<<p>>), OK(<<h>>)}
                        \subseteq Replies(TrackerConn(p), Req("GET_PEER", x))

\* C10, amended: the holder set holds p; it holds h, and GET_PEER may
\* return either, unless h has sent REMOVE for the file meanwhile.
C10_HolderSetHasDownloader ==
    \A p \in Hosts :
        /\ ~AddBeforeSave(p)
        /\ Downloaded(p) =>
              LET x == orch[p].file
                  h == orch[p].peer[1]
              IN  /\ x \in DOMAIN store[p]
                  /\ store[p][x] = Content(x)
                  /\ TrackerConn(p) \in Holders(tracker, x)
                  /\ OK(<<p>>) \in Replies(TrackerConn(p), Req("GET_PEER", x))
                  /\ ~SentRemove(h, x) =>
                        /\ TrackerConn(h) \in Holders(tracker, x)
                        /\ OK(<<h>>)
                              \in Replies(TrackerConn(p), Req("GET_PEER", x))

C10_Witness ==
    /\ Downloaded("B") /\ orch["B"].file = <<"a">> /\ orch["B"].peer = <<"A">>
    /\ ~SentRemove("A", <<"a">>)
    /\ tracker[<<"a">>] = {TrackerConn("A"), TrackerConn("B")}
    /\ <<"a">> \in DOMAIN store["B"]

\* The frames an orchestrator has sent to the tracker that wait to be read.
Pending(p) == Range(inbox[TrackerConn(p)])

\* C11: GET_FILE f for a file that is not in the folder is answered BAD
\* "File does not exist"; the orchestrator that gets this reply reports the
\* download as failed, writes no file f and sends no ADD f.
C11_MissingFileFailsTheDownload ==
    /\ \A f \in Names :
          (PeerHandled /\ strip(last.data) = Req("GET_FILE", f)
                  /\ f \notin DOMAIN last.s[last.at]) =>
              last.reply = BadNoFile
    /\ \A p \in Hosts :
          LET d == DownloadConn(p, orch[p].n)
          IN  /\ (orch[p].pc = "transfer_wait" /\ outbox[d] = <<BadNoFile>>) =>
                    orch[p].file \notin DOMAIN store[p]
              /\ (orch[p].n > 0 /\ last.conn = d /\ last.reply = BadNoFile
                      /\ orch[p].pc # "transfer_wait") =>
                    /\ orch[p].pc \notin {"save", "add", "add_wait"}
                    /\ orch[p].pc = "prompt" => orch[p].result = "failed"
                    /\ orch[p].file \notin DOMAIN store[p]
                    /\ Req("ADD", orch[p].file) \notin Pending(p)
                    /\ TrackerConn(p) \notin Holders(tracker, orch[p].file)

C11_Witness ==
    /\ orch["A"].pc = "prompt" /\ orch["A"].result = "failed"
    /\ orch["A"].file = <<"b">> /\ orch["A"].peer = <<"A">>
    /\ last.at = "A" /\ last.conn = DownloadConn("A", orch["A"].n)
    /\ last.reply = BadNoFile
    /\ <<"b">> \notin DOMAIN store["A"]

\* The holder an orchestrator was given has no process any more.
HolderGone(p) ==
    /\ Len(orch[p].peer) = 1 /\ orch[p].peer[1] \in Hosts
    /\ ~Running(orch[p].peer[1])

\* C12: a download whose holder cannot be reached, or whose connection
\* fails, ends as a failed operation: nothing is written or announced and
\* the orchestrator's process goes on (it never ends by an exception).
C12_UnreachableHolderIsFailed ==
    \A p \in Hosts :
        HolderGone(p) =>
            /\ orch[p].pc # "crashed"
            /\ orch[p].pc = "prompt" => orch[p].result = "failed"

\* C13: what list_files returns is the known file names without the names
\* of the folder: every element is a name the tracker knows and the folder
\* lacks, each of them is there when the tracker's reply is the last thing
\* read, and main is given no list to choose from when nothing is new.
C13_ListIsKnownMinusLocal ==
    \A p \in Hosts :
        orch[p].pc = "choose" =>
            /\ Range(orch[p].available) \subseteq DOMAIN tracker \ DOMAIN store[p]
            /\ DOMAIN tracker \ DOMAIN store[p] # {}
            /\ (last.conn = TrackerConn(p) /\ last.data = <<"LIST_FILES">>) =>
                  Range(orch[p].available) = Range(last.k) \ DOMAIN store[p]

\* The orchestrator of p leaves connect_to_tracker in this step.
Announced(p) ==
    orch[p].pc \in {"start", "announce_wait"} /\ orch'[p].pc = "prompt"

\* C14: when connect_to_tracker returns, the peer is a holder of every file
\* of its folder: LIST_FILES names the file and GET_PEER may return the peer,
\* whatever the other peer has sent meanwhile.
C14_AnnounceRegistersTheFolder ==
    [][\A p \in Hosts :
          Announced(p) =>
              \A f \in DOMAIN store[p] :
                  /\ TrackerConn(p) \in Holders(tracker', f)
                  /\ \A reply \in Replies(TrackerConn(p), <<"LIST_FILES">>) :
                        Lists(reply, f)
                  /\ OK(<<p>>) \in Replies(TrackerConn(p), Req("GET_PEER", f))]_vars

C14_Witness ==
    /\ orch["A"].pc = "prompt" /\ orch["A"].n = 0 /\ orch["A"].result = "none"
    /\ DOMAIN store["A"] = {<<"a">>, <<"b">>}
    /\ \A f \in DOMAIN store["A"] : TrackerConn("A") \in Holders(tracker, f)
    /\ orch["B"].pc = "getpeer_wait"
    /\ tracker[<<"b">>] = {Stale, TrackerConn("A"), TrackerConn("B")}

\* C15: on "close" the orchestrator sends REMOVE for every file of its
\* folder, each REMOVE is answered OK before the next step, the connection
\* is closed only after the last, and the peer is then in no holder set
\* (an entry of its host is one that an earlier process left).
C15_CloseRetractsTheFolder ==
    [][\A p \in Hosts :
          LET c == TrackerConn(p)
          IN  /\ (orch[p].pc = "prompt" /\ orch'[p].pc = "retract") =>
                    Range(orch'[p].todo) = DOMAIN store[p]
              /\ (orch[p].pc = "retract" /\ orch'[p].pc = "retract_wait") =>
                    inbox'[c] = <<Req("REMOVE", Head(orch[p].todo))>>
              /\ (orch[p].pc = "retract_wait" /\ orch'[p].pc = "retract") =>
                    /\ Answer(c) = OK(<<>>)
                    /\ orch'[p].todo = Tail(orch[p].todo)
              /\ (orch'[p].pc \in {"retract", "retract_wait"}) => ~conn'[c].eof
              /\ orch'[p].pc = "exited" =>
                    /\ conn'[c].eof \/ conn'[c].st = "closed"
                    /\ \A f \in DOMAIN tracker' :
                          \A h \in tracker'[f] : h[1] = p => h = Stale]_vars

C15_Witness ==
    /\ orch["A"].pc = "exited" /\ orch["A"].n = 1
    /\ DOMAIN store["A"] = {<<"a">>, <<"b">>}
    /\ {<<"a">>, <<"b">>} \subseteq DOMAIN tracker
    /\ \A f \in DOMAIN tracker : TrackerConn("A") \notin tracker[f]
    /\ conn[TrackerConn("A")].st = "closed"

\* The connections registered in the multiplexers, and the connections in
\* a state.
Registered(sel, psel) == sel \cup UNION {psel[h] : h \in Hosts}
InState(cn, st) == {c \in Conns : cn[c].st \in st}

\* C16: in the tracker's and a file server's multiplexer the registered
\* connections are the accepted connections that have not read as closed; a
\* connection is registered once, when it is accepted; it is unregistered
\* by the read of zero bytes that closes it; a closed connection stays
\* closed and unregistered, and a handler runs for registered connections
\* only.
C16_RegisteredIsAcceptedAndOpen ==
    /\ [](/\ selector = {c \in InState(conn, {"open"}) : conn[c].to = "T"}
          /\ \A h \in Hosts :
                peerSelector[h] = {c \in InState(conn, {"open"}) : conn[c].to = h})
    /\ [][LET before == Registered(selector, peerSelector)
               after == Registered(selector', peerSelector')
           IN  /\ after \ before \subseteq InState(conn, {"free", "backlog"})
               /\ before \ after \subseteq InState(conn', {"closed"})
               /\ before \ after # {} =>
                     before \ after = {last'.conn} /\ last'.data = NoFrame
               /\ InState(conn, {"closed"}) \subseteq InState(conn', {"closed"})
               /\ last' # last =>
                     last'.conn \in before /\ conn[last'.conn].st = "open"]_vars

C16_Witness ==
    /\ conn[<<"A", 1>>].st = "closed"
    /\ last.at = "A" /\ last.conn = <<"A", 1>> /\ last.data = NoFrame
    /\ selector = {<<"A", 2>>}
    /\ peerSelector["A"] = {}

\* The request the orchestrator of p waits for a reply to, and the
\* connection of that request; NoFrame when it is not in remote_call.
Asked(p) ==
    CASE orch[p].pc = "announce_wait" -> Req("ADD", Head(orch[p].todo))
      [] orch[p].pc = "add_wait" -> Req("ADD", orch[p].file)
      [] orch[p].pc = "retract_wait" -> Req("REMOVE", Head(orch[p].todo))
      [] orch[p].pc = "list_wait" -> <<"LIST_FILES">>
      [] orch[p].pc = "getpeer_wait" -> Req("GET_PEER", orch[p].file)
      [] orch[p].pc = "transfer_wait" -> Req("GET_FILE", orch[p].file)
      [] OTHER -> NoFrame
AskedOn(p) ==
    IF orch[p].pc = "transfer_wait" THEN DownloadConn(p, orch[p].n)
    ELSE TrackerConn(p)

\* The reply is one that answers the request.
Answers(reply, request) ==
    CASE request[1] \in {"ADD", "REMOVE"} -> reply = OK(<<>>)
      [] request[1] = "LIST_FILES" ->
            \E i \in 0..Len(trackerKeys) :
                reply = OK(join("; ", SubSeq(trackerKeys, 1, i)))
      [] request[1] = "GET_PEER" ->
            IF Len(request) = 2 THEN reply = BadMethod
            ELSE reply = BadNoFile \/ \E h \in Hosts : reply = OK(<<h>>)
      [] request[1] = "GET_FILE" ->
            reply \in {BadNoFile, OK(Content(SubSeq(request, 3, Len(request))))}
      [] OTHER -> FALSE

\* C17: on an orchestrator's connection at most one frame is on its way, a
\* request or its reply, and only while the orchestrator is in remote_call
\* on that connection: the request is the one it waits for, a server read
\* sees that one frame, and the reply is an answer to it.  (The frame sent
\* on a connection whose server has ended with its process is lost.)
C17_RequestsAndRepliesAlternate ==
    \A p \in Hosts :
        \A c \in OrchConns :
            (c[1] = p /\ conn[c].st # "dead") =>
                /\ Len(inbox[c]) + Len(outbox[c]) <= 1
                /\ (inbox[c] # <<>> \/ outbox[c] # <<>>) =>
                      Asked(p) # NoFrame /\ AskedOn(p) = c
                /\ inbox[c] # <<>> => inbox[c] = <<Asked(p)>>
                /\ outbox[c] # <<>> =>
                      /\ Answers(outbox[c][1], Asked(p))
                      /\ (last.conn = c => last.data = Asked(p)
                                             /\ last.reply = outbox[c][1])

C17_Witness ==
    /\ orch["A"].pc = "list_wait" /\ outbox[TrackerConn("A")] # <<>>
    /\ orch["B"].pc = "transfer_wait"
    /\ inbox[DownloadConn("B", 1)] = <<Req("GET_FILE", <<"a">>)>>
    /\ last.conn = TrackerConn("A") /\ last.data = <<"LIST_FILES">>

\* Every peer's membership in every holder set is as before the last read,
\* but for the membership of this peer in the holder set of this file.
OnlyChanges(peer, file) ==
    \A g \in DOMAIN tracker \cup DOMAIN last.t :
        \A h \in Holders(tracker, g) \cup Holders(last.t, g) :
            (g # file \/ h # peer) =>
                (h \in Holders(tracker, g) <=> h \in Holders(last.t, g))

\* C18: ADD f and REMOVE f change at most the membership of the
\* connection's own peer in the holder set of f, and no other file becomes
\* known or unknown; GET_PEER and LIST_FILES leave the registry as it was
\* and make no entry for an unknown name.
C18_RequestsChangeOwnMembershipOnly ==
    TrackerHandled =>
        LET parts == split1(strip(last.data), " ")
        IN  /\ OnlyChanges(LastPeer, IF Len(parts) = 2 THEN parts[2] ELSE <<>>)
            /\ \A g \in DOMAIN tracker \ DOMAIN last.t :
                  Len(parts) = 2 /\ parts[1] \in {<<"ADD">>, <<"REMOVE">>}
                      /\ g = parts[2]
            /\ DOMAIN last.t \subseteq DOMAIN tracker
            /\ parts[1] \notin {<<"ADD">>, <<"REMOVE">>} =>
                  tracker = last.t /\ trackerKeys = last.k

C18_Witness ==
    /\ TrackerHandled /\ last.data = Req("REMOVE", <<"a">>)
    /\ Holders(last.t, <<"a">>) = {<<"A", 1>>, <<"A", 2>>}
    /\ Holders(tracker, <<"a">>) = {<<"A", 1>>}
    /\ Holders(tracker, <<"b">>) = {<<"A", 1>>, <<"A", 2>>}

C18_WitnessLookup ==
    /\ TrackerHandled /\ last.data = Req("GET_PEER", <<"b">>)
    /\ last.reply = BadNoFile
    /\ <<"b">> \notin DOMAIN tracker
    /\ Cardinality(Holders(tracker, <<"a">>)) = 2

\* The file is in the folder of the host, with all of its text.
Has(h, f) == f \in DOMAIN store[h] /\ store[h][f] = Content(f)

\* The tracker has the connection open: it has accepted it and has not read
\* its end.
Connected(c) == conn[c].st = "open" /\ conn[c].to = "T"

\* C19: a holder whose tracker connection is open has the file, whole, in
\* its folder; an ADD on its way names a file of the folder; and a file
\* server does not answer BAD "File does not exist" for a file that a
\* connected peer of its host holds.
C19_ConnectedHolderHasTheFile ==
    /\ \A f \in DOMAIN tracker :
          \A c \in tracker[f] : Connected(c) => Has(c[1], f)
    /\ \A p \in Hosts :
          \A f \in Names : Req("ADD", f) \in Pending(p) => Has(p, f)
    /\ \A f \in Names :
          (PeerHandled /\ strip(last.data) = Req("GET_FILE", f)
                  /\ \E c \in Holders(last.t, f) :
                        c[1] = last.at /\ Connected(c)) =>
              last.reply = OK(Content(f))

C19_Witness ==
    /\ orch["B"].result = "ok" /\ orch["B"].file = <<"a">>
    /\ orch["A"].pc = "exited"
    /\ tracker[<<"a">>] = {TrackerConn("B")}
    /\ Connected(TrackerConn("B"))
    /\ Has("B", <<"a">>)

\* Both orchestrators wait for the file of the other.
MutualDownload ==
    /\ orch["A"].pc = "transfer_wait" /\ orch["A"].peer = <<"B">>
    /\ orch["B"].pc = "transfer_wait" /\ orch["B"].peer = <<"A">>

\* Both downloads have ended with the file saved.
BothSaved == Has("A", <<"b">>) /\ Has("B", <<"a">>)

\* The user of a peer has entered "close": the file server of that peer
\* ends with its process.
Closing == \E p \in Hosts : orch[p].pc \in {"retract", "retract_wait", "exited"}

\* C20: when both peers wait for a file of each other, both downloads
\* finish with the file saved, since each file server answers while the
\* orchestrator of its process is blocked in recv; this as long as no user
\* closes a peer, which ends a file server's loop.
C20_MutualDownloadsFinish == MutualDownload ~> (BothSaved \/ Closing)

C20_Witness ==
    /\ MutualDownload
    /\ last.at = "A" /\ last.data = Req("GET_FILE", <<"a">>)
    /\ last.reply = OK(Content(<<"a">>))
    /\ outbox[DownloadConn("B", 1)] # <<>>
    /\ inbox[DownloadConn("A", 1)] # <<>>

====
